---- MODULE Spec2Model ----
(***************************************************************************)
(* write_mysql plugin of collectd (src/write_mysql.c): one configured     *)
(* target (one wm_callback_t), its MySQL connection with three prepared   *)
(* statements, the identifier cache, and writer threads calling wm_write. *)
(*                                                                         *)
(* The store keeps two tables, identifier and data.  The model's store    *)
(* does not enforce the UNIQUE key of the identifier table by itself, so  *)
(* that uniqueness of identifier rows rests on the plugin's               *)
(* select-before-insert under its locks, not on the schema.               *)
(***************************************************************************)
EXTENDS Integers, Sequences, FiniteSets, TLC

\* ------------------------------------------------------------------ bounds
\* Number of writer threads calling wm_write on the target.
NumThreads == 2
\* Total number of wm_write calls over one behaviour.
MaxWrites == 2
\* Number of distinct resolutions in one behaviour of the key check.
MaxKeys == 2

Threads == 1..NumThreads
NoThread == 0

\* ------------------------------------------------------------------ inputs
\* Data source types and the data sets of two types of types.db
\* (ds->ds_num, ds->ds[i].name, ds->ds[i].type); i counts from 0.
DS_TYPE_GAUGE == "gauge"
DS_TYPE_COUNTER == "counter"
DataSetCpu ==
  [ds_num |-> 1,
   ds |-> [k \in 0..0 |-> [name |-> "value", type |-> DS_TYPE_GAUGE]]]
DataSetIfOctets ==
  [ds_num |-> 2,
   ds |-> [k \in 0..1 |->
             IF k = 0 THEN [name |-> "rx", type |-> DS_TYPE_COUNTER]
                      ELSE [name |-> "tx", type |-> DS_TYPE_COUNTER]]]

\* The batches handed to wm_write: a value list (host, plugin,
\* plugin_instance, type, type_instance) and the data set of its type.
\* Field values follow collectd's naming schema: no '/' anywhere, no '-' in
\* plugin and type.
Batches ==
  { [vl |-> [host |-> "web-1", plugin |-> "cpu", plugin_instance |-> "0",
             type |-> "cpu", type_instance |-> "idle"],
     ds |-> DataSetCpu],
    [vl |-> [host |-> "web-1", plugin |-> "interface", plugin_instance |-> "",
             type |-> "if_octets", type_instance |-> "eth0"],
     ds |-> DataSetIfOctets] }

\* Values of a thread's locals while it is outside wm_write.
NoValueList ==
  [host |-> "", plugin |-> "", plugin_instance |-> "", type |-> "",
   type_instance |-> "", time |-> [sec |-> 0, frac |-> 0]]
NoDataSet == [ds_num |-> 0, ds |-> <<>>]
NoTime ==
  [year |-> 0, month |-> 0, day |-> 0, hour |-> 0, minute |-> 0, second |-> 0]
NoPre == [seen |-> FALSE, cached |-> FALSE, rows |-> 0]

\* The id column of a row whose id is NULL (auto-increment ids start at 1).
NullId == 0

\* Handle values: a NULL pointer, or the state of the handle pointed to.
NULL == "NULL"
HandleStates == {NULL, "init", "connected", "prepared", "closed"}

\* --------------------------------------------------------------- variables
VARIABLES
  cb,          \* wm_callback_t: conn, statements, both locks, the cache
  identifier,  \* store: rows of table identifier, in insertion order
  data,        \* store: rows of table data, in insertion order
  pc,          \* per thread: position inside wm_write
  vl,          \* per thread: value list of the batch being written
  ds,          \* per thread: data set of the batch being written
  rates,       \* per thread: rates returned by uc_get_rate
  vl_time,     \* per thread: wm_write_locked's MYSQL_TIME vl_time
  i,           \* per thread: loop index of wm_write_locked
  status,      \* per thread: wm_write_locked's status / return value
  dataset_id,  \* per thread: result of wm_identifier_to_id
  sel_result,  \* per thread: result set of the identifier SELECT (ids)
  log,         \* per thread: store calls made by the current batch (history)
  pre,         \* per thread: what held when the current resolution began (history)
  resolved,    \* history: <<identity, id>> for every id wm_identifier_to_id returned
  cleared,     \* history: a restart has dropped a non-empty cache
  writes       \* number of batches wm_write has taken (calls that got their rates)

vars == <<cb, identifier, data, pc, vl, ds, rates, vl_time, i, status,
          dataset_id, sel_result, log, pre, resolved, cleared, writes>>

\* ------------------------------------------------------------ pure helpers

\* FORMAT_VL / format_name of collectd's common code:
\* host/plugin[-plugin_instance]/type[-type_instance]
FORMAT_VL(v) ==
  v.host \o "/" \o v.plugin
    \o (IF v.plugin_instance = "" THEN "" ELSE "-" \o v.plugin_instance)
    \o "/" \o v.type
    \o (IF v.type_instance = "" THEN "" ELSE "-" \o v.type_instance)

\* The cache key of wm_identifier_to_id: "%s/%s" of FORMAT_VL and the name
\* of data source index.
IdentifierKey(v, d, index) == FORMAT_VL(v) \o "/" \o d.ds[index].name

\* DS_TYPE_TO_STRING
DS_TYPE_TO_STRING(type) ==
  IF type = DS_TYPE_GAUGE THEN "gauge"
  ELSE IF type = DS_TYPE_COUNTER THEN "counter"
  ELSE "unknown"

\* SelectParams with param_bind[5] bound to the type instance instead of
\* the data source name.
SelectParamsWrongField(v, d, index) ==
  [host |-> v.host, plugin |-> v.plugin,
   plugin_instance |-> v.plugin_instance, type |-> v.type,
   type_instance |-> v.type_instance,
   data_source_name |-> v.type_instance]

\* The six fields bound to the identifier SELECT (param_bind[0..5]).
SelectParams(v, d, index) ==
  [host |-> v.host, plugin |-> v.plugin,
   plugin_instance |-> v.plugin_instance, type |-> v.type,
   type_instance |-> v.type_instance,
   data_source_name |-> d.ds[index].name]

\* The seven fields bound to the identifier INSERT (binding[0..6]).
InsertParams(v, d, index) ==
  [host |-> v.host, plugin |-> v.plugin,
   plugin_instance |-> v.plugin_instance, type |-> v.type,
   type_instance |-> v.type_instance,
   data_source_name |-> d.ds[index].name,
   data_source_type |-> DS_TYPE_TO_STRING(d.ds[index].type)]

\* The uniqueness key of a row of table identifier.
RowKey(r) ==
  [host |-> r.host, plugin |-> r.plugin,
   plugin_instance |-> r.plugin_instance, type |-> r.type,
   type_instance |-> r.type_instance,
   data_source_name |-> r.data_source_name]

\* wm_identifier_statement_select: the ids of the rows matching the six
\* bound fields, in table order.
SelectIds(tbl, p) ==
  LET match == {k \in 1..Len(tbl) : RowKey(tbl[k]) = p}
  IN  {tbl[k].id : k \in match}

\* mysql_stmt_num_rows read without the result set having been stored.
mysql_stmt_num_rows_unstored(result) == 0

\* mysql_stmt_num_rows of a stored result set.
mysql_stmt_num_rows(result) == Cardinality(result)

\* The number of rows of table identifier with the uniqueness key p.
RowsOf(tbl, p) ==
  Cardinality({k \in 1..Len(tbl) : RowKey(tbl[k]) = p})

\* wm_identifier_statement_insert: a new row with the next auto-increment id.
InsertRow(tbl, p) ==
  Append(tbl, [id |-> Len(tbl) + 1, host |-> p.host, plugin |-> p.plugin,
               plugin_instance |-> p.plugin_instance, type |-> p.type,
               type_instance |-> p.type_instance,
               data_source_name |-> p.data_source_name,
               data_source_type |-> p.data_source_type])

\* wm_cdtime_t_to_mysql_time, success path: CDTIME_T_TO_TIME_T drops the
\* 30 fractional bits (a cdtime_t is held as seconds and fraction),
\* localtime_r (UTC) splits the seconds, and the MYSQL_TIME fields are filled
\* from struct tm.
wm_cdtime_t_to_mysql_time(in) ==
  LET t        == in.sec
      tm_sec   == t % 60
      tm_min   == (t \div 60) % 60
      tm_hour  == (t \div 3600) % 24
      tm_mday  == 1 + (t \div 86400)
      tm_mon   == 0
      tm_year  == 70
  IN  [year |-> tm_year + 1900, month |-> tm_mon + 1, day |-> tm_mday,
       hour |-> tm_hour, minute |-> tm_min, second |-> tm_sec]

\* wm_identifier_cache_lookup on a tree that compares key pointers, not
\* key strings: the caller's buffer never equals a stored copy.
wm_identifier_cache_lookup_by_pointer(c, key) == -1

\* wm_identifier_cache_lookup: c_avl_get on the cache; -1 on a miss.
wm_identifier_cache_lookup(c, key) ==
  IF \E e \in c.identifier_cache : e.key = key
    THEN (CHOOSE e \in c.identifier_cache : e.key = key).id
    ELSE -1

\* wm_identifier_cache_insert storing the data source index, not the id.
wm_identifier_cache_insert_wrong_value(c, key, id) ==
  IF \E e \in c.identifier_cache : e.key = key
    THEN c
    ELSE [c EXCEPT !.identifier_cache = @ \cup {[key |-> key, id |-> 0]}]

\* wm_identifier_cache_insert, strdup and c_avl_insert both succeeding:
\* c_avl_insert refuses a key that is already in the tree.
wm_identifier_cache_insert(c, key, id) ==
  IF \E e \in c.identifier_cache : e.key = key
    THEN c
    ELSE [c EXCEPT !.identifier_cache = @ \cup {[key |-> key, id |-> id]}]

\* wm_callback_disconnect destroying the identifier cache with the handles.
wm_callback_disconnect_clears_cache(c) ==
  IF c.conn = NULL
    THEN c
    ELSE [c EXCEPT !.data_stmt = NULL,
                   !.identifier_stmt_select = NULL,
                   !.identifier_stmt_insert = NULL,
                   !.conn = NULL,
                   !.identifier_cache = {}]

\* wm_callback_disconnect returning early when the data statement is NULL.
wm_callback_disconnect_early_return(c) ==
  IF c.conn = NULL \/ c.data_stmt = NULL
    THEN c
    ELSE [c EXCEPT !.data_stmt = NULL,
                   !.identifier_stmt_select = NULL,
                   !.identifier_stmt_insert = NULL,
                   !.conn = NULL]

\* wm_callback_disconnect closing the connection without cb->conn = NULL.
wm_callback_disconnect_dangling(c) ==
  IF c.conn = NULL
    THEN c
    ELSE [c EXCEPT !.data_stmt = NULL,
                   !.identifier_stmt_select = NULL,
                   !.identifier_stmt_insert = NULL,
                   !.conn = "closed"]

\* wm_callback_disconnect
wm_callback_disconnect(c) ==
  IF c.conn = NULL
    THEN c
    ELSE [c EXCEPT !.data_stmt = NULL,
                   !.identifier_stmt_select = NULL,
                   !.identifier_stmt_insert = NULL,
                   !.conn = NULL]

\* wm_callback_init followed by the c_avl_create of wm_config_instance.
wm_callback_init ==
  [conn |-> NULL, data_stmt |-> NULL,
   identifier_stmt_select |-> NULL, identifier_stmt_insert |-> NULL,
   conn_lock |-> NoThread, identifier_lock |-> NoThread,
   identifier_cache |-> {}]

\* The identity of data source index of a batch: the six fields of the
\* UNIQUE key of table identifier.
IdentityOf(v, d, index) ==
  [host |-> v.host, plugin |-> v.plugin,
   plugin_instance |-> v.plugin_instance, type |-> v.type,
   type_instance |-> v.type_instance,
   data_source_name |-> d.ds[index].name]

\* All identities the batches can name.
Identities ==
  UNION { {IdentityOf(b.vl, b.ds, k) : k \in 0..(b.ds.ds_num - 1)} : b \in Batches }

\* --------------------------------------------------------------------- Init
Init ==
  /\ cb = wm_callback_init
  /\ identifier = <<>>
  /\ data = <<>>
  /\ pc = [t \in Threads |-> "idle"]
  /\ vl = [t \in Threads |-> NoValueList]
  /\ ds = [t \in Threads |-> NoDataSet]
  /\ rates = [t \in Threads |-> <<>>]
  /\ vl_time = [t \in Threads |-> NoTime]
  /\ i = [t \in Threads |-> 0]
  /\ status = [t \in Threads |-> 0]
  /\ dataset_id = [t \in Threads |-> -1]
  /\ sel_result = [t \in Threads |-> {}]
  /\ log = [t \in Threads |-> <<>>]
  /\ pre = [t \in Threads |-> NoPre]
  /\ resolved = {}
  /\ cleared = FALSE
  /\ writes = 0


\* ------------------------------------------------------------------ actions
\* The thread-local updates shared by the steps below.  A log entry is
\* <<kind, data source index (-1: none), value>>; the first entry of a batch
\* is "call", with value 1 when another thread was inside wm_write_locked
\* at the time of the call.
Goto(t, label) == pc' = [pc EXCEPT ![t] = label]
Logged(t, kind, val) == log' = [log EXCEPT ![t] = Append(@, <<kind, i[t], val>>)]
LoggedBatch(t, kind, val) == log' = [log EXCEPT ![t] = Append(@, <<kind, -1, val>>)]

\* cdtime_t of the n-th batch: whole seconds plus 2^-30 fractions of one.
BatchTime(n) == [sec |-> 3599 + n, frac |-> n]
\* uc_get_rate: one rate per data source (here: distinct per batch and source).
uc_get_rate(d, n) == [k \in 0..(d.ds_num - 1) |-> 10 * n + k]

\* wm_write up to pthread_mutex_lock: the caller's batch, and uc_get_rate,
\* which may return NULL (then wm_write returns -1 at once).  The callers are
\* anonymous threads of the daemon with no state of their own between calls,
\* so the next call is given to the lowest-numbered thread outside wm_write.
WriteBegin(t) ==
  /\ pc[t] = "idle"
  /\ \A u \in Threads : u < t => pc[u] # "idle"
  /\ writes < MaxWrites
  /\ \E b \in Batches, got \in BOOLEAN :
       IF got
         THEN /\ writes' = writes + 1
              /\ vl' = [vl EXCEPT ![t] =
                   [host |-> b.vl.host, plugin |-> b.vl.plugin,
                    plugin_instance |-> b.vl.plugin_instance,
                    type |-> b.vl.type, type_instance |-> b.vl.type_instance,
                    time |-> BatchTime(writes + 1)]]
              /\ ds' = [ds EXCEPT ![t] = b.ds]
              /\ rates' = [rates EXCEPT ![t] = uc_get_rate(b.ds, writes + 1)]
              /\ log' = [log EXCEPT ![t] =
                   <<(<<"call", -1, IF cb.conn_lock = NoThread THEN 0 ELSE 1>>)>>]
              /\ Goto(t, "lock")
         ELSE UNCHANGED <<vl, ds, rates, log, pc, writes>>
  /\ UNCHANGED <<cb, identifier, data, vl_time, i, status, dataset_id,
                 sel_result, pre, resolved, cleared>>

\* pthread_mutex_lock (&cb->conn_lock)
LockConn(t) ==
  /\ pc[t] = "lock"
  /\ cb.conn_lock = NoThread
  /\ cb' = [cb EXCEPT !.conn_lock = t]
  /\ Goto(t, "connect")
  /\ UNCHANGED <<identifier, data, vl, ds, rates, vl_time, i, status,
                 dataset_id, sel_result, log, pre, resolved, cleared, writes>>

\* wm_write_locked returns st: back in wm_write, before the unlock.
Return(t, st) ==
  /\ status' = [status EXCEPT ![t] = st]
  /\ Goto(t, "unlock")

\* wm_callback_connect, entry: no-op when connected, else the assertion and
\* mysql_init (which may fail, leaving conn NULL).
ConnectBegin(t) ==
  /\ pc[t] = "connect"
  /\ IF cb.conn # NULL
       THEN /\ Goto(t, "time")
            /\ LoggedBatch(t, "connect", 0)
            /\ UNCHANGED <<cb, status>>
       ELSE IF cb.data_stmt # NULL
         THEN /\ Goto(t, "aborted")
              /\ UNCHANGED <<cb, status, log>>
         ELSE \E ok \in BOOLEAN :
                IF ok
                  THEN /\ cb' = [cb EXCEPT !.conn = "init"]
                       /\ Goto(t, "real_connect")
                       /\ UNCHANGED <<status, log>>
                  ELSE /\ Return(t, -1)
                       /\ LoggedBatch(t, "connect", -1)
                       /\ UNCHANGED cb
  /\ UNCHANGED <<identifier, data, vl, ds, rates, vl_time, i, dataset_id,
                 sel_result, pre, resolved,
                 cleared, writes>>

\* ConnectFail with wm_write_locked calling wm_callback_connect again
\* instead of returning.
ConnectFail_retry(t, n) ==
  /\ cb' = wm_callback_disconnect(cb)
  /\ Goto(t, "connect")
  /\ UNCHANGED status
  /\ LoggedBatch(t, "connect", 0 - n)

\* The n-th call of wm_callback_connect fails (mysql_init is the first, the
\* last mysql_stmt_prepare the ninth): full disconnect, return -1.
ConnectFail(t, n) ==
  /\ cb' = wm_callback_disconnect(cb)
  /\ Return(t, -1)
  /\ LoggedBatch(t, "connect", 0 - n)

\* mysql_real_connect
RealConnect(t) ==
  /\ pc[t] = "real_connect"
  /\ \E ok \in BOOLEAN :
       IF ok
         THEN /\ cb' = [cb EXCEPT !.conn = "connected"]
              /\ Goto(t, "select_db")
              /\ UNCHANGED <<status, log>>
         ELSE ConnectFail(t, 2)
  /\ UNCHANGED <<identifier, data, vl, ds, rates, vl_time, i, dataset_id,
                 sel_result, pre, resolved, cleared,
                 writes>>

\* mysql_select_db
SelectDb(t) ==
  /\ pc[t] = "select_db"
  /\ \E ok \in BOOLEAN :
       IF ok
         THEN /\ Goto(t, "data_stmt_init")
              /\ UNCHANGED <<cb, status, log>>
         ELSE ConnectFail(t, 3)
  /\ UNCHANGED <<identifier, data, vl, ds, rates, vl_time, i, dataset_id,
                 sel_result, pre, resolved, cleared,
                 writes>>

\* The three statements in the order wm_callback_connect prepares them.
Statements ==
  <<"data_stmt", "identifier_stmt_select", "identifier_stmt_insert">>
StmtIndex(label, suffix) ==
  CHOOSE k \in 1..3 : label = Statements[k] \o suffix

\* cb->X = mysql_stmt_init (cb->conn), for the statement X this thread is at.
StmtInit(t) ==
  /\ \E k \in 1..3 : pc[t] = Statements[k] \o "_init"
  /\ LET k == StmtIndex(pc[t], "_init") IN
     \E ok \in BOOLEAN :
       IF ok
         THEN /\ cb' = [cb EXCEPT ![Statements[k]] = "init"]
              /\ Goto(t, Statements[k] \o "_prepare")
              /\ UNCHANGED <<status, log>>
         ELSE ConnectFail(t, 2 + 2 * k)
  /\ UNCHANGED <<identifier, data, vl, ds, rates, vl_time, i, dataset_id,
                 sel_result, pre, resolved, cleared,
                 writes>>

\* mysql_stmt_prepare (cb->X, ...); after the third one connect returns 0.
StmtPrepare(t) ==
  /\ \E k \in 1..3 : pc[t] = Statements[k] \o "_prepare"
  /\ LET k == StmtIndex(pc[t], "_prepare") IN
     \E ok \in BOOLEAN :
       IF ok
         THEN /\ cb' = [cb EXCEPT ![Statements[k]] = "prepared"]
              /\ IF k < 3
                   THEN /\ Goto(t, Statements[k + 1] \o "_init")
                        /\ UNCHANGED log
                   ELSE /\ Goto(t, "time")
                        /\ LoggedBatch(t, "connect", 1)
              /\ UNCHANGED status
         ELSE ConnectFail(t, 3 + 2 * k)
  /\ UNCHANGED <<identifier, data, vl, ds, rates, vl_time, i, dataset_id,
                 sel_result, pre, resolved, cleared,
                 writes>>

\* ConvertTime with the status of wm_cdtime_t_to_mysql_time ignored: the
\* loop runs with the zeroed vl_time.
ConvertTime_status_ignored(t) ==
  /\ pc[t] = "time"
  /\ \E ok \in BOOLEAN :
       /\ vl_time' = [vl_time EXCEPT ![t] =
            IF ok THEN wm_cdtime_t_to_mysql_time(vl[t].time) ELSE NoTime]
       /\ LoggedBatch(t, "time", IF ok THEN 0 ELSE -1)
  /\ i' = [i EXCEPT ![t] = 0]
  /\ Goto(t, "loop")
  /\ UNCHANGED <<cb, identifier, data, vl, ds, rates, status, dataset_id,
                 sel_result, pre, resolved, cleared, writes>>

\* wm_cdtime_t_to_mysql_time in wm_write_locked; localtime_r may return NULL.
ConvertTime(t) ==
  /\ pc[t] = "time"
  /\ \E ok \in BOOLEAN :
       IF ok
         THEN /\ vl_time' = [vl_time EXCEPT ![t] = wm_cdtime_t_to_mysql_time(vl[t].time)]
              /\ i' = [i EXCEPT ![t] = 0]
              /\ LoggedBatch(t, "time", 0)
              /\ Goto(t, "loop")
              /\ UNCHANGED status
         ELSE /\ Return(t, -1)
              /\ LoggedBatch(t, "time", -1)
              /\ UNCHANGED <<vl_time, i>>
  /\ UNCHANGED <<cb, identifier, data, vl, ds, rates, dataset_id,
                 sel_result, pre, resolved,
                 cleared, writes>>

\* for (i = 0; i < ds->ds_num; i++): the loop test, and return (0) after it.
LoopTest(t) ==
  /\ pc[t] = "loop"
  /\ IF i[t] < ds[t].ds_num
       THEN /\ Goto(t, "identifier_lock")
            /\ UNCHANGED status
       ELSE Return(t, 0)
  /\ UNCHANGED <<cb, identifier, data, vl, ds, rates, vl_time, i, dataset_id,
                 sel_result, log, pre, resolved, cleared, writes>>


\* ------------------------------------------------- wm_identifier_to_id steps
\* The identity and the cache key of the data source thread t is at.
Identity(t) == IdentityOf(vl[t], ds[t], i[t])
Key(t) == IdentifierKey(vl[t], ds[t], i[t])

\* What a call on a statement handle can do: a prepared statement succeeds or
\* reports an error; any other handle (NULL, closed, unprepared) is undefined
\* behaviour, which either reports an error or kills the process.
Outcomes(handle) ==
  IF handle = "prepared" THEN {"ok", "error"} ELSE {"error", "crash"}

\* wm_identifier_database_lookup / _insert return -1 after a failed call.
LookupFail(t) ==
  /\ dataset_id' = [dataset_id EXCEPT ![t] = -1]
  /\ Goto(t, "cache_insert")

\* The process dies inside a driver call.
Crash(t) ==
  /\ Goto(t, "aborted")
  /\ UNCHANGED dataset_id

\* pthread_mutex_lock (&cb->identifier_lock) in wm_identifier_to_id.
LockIdentifier(t) ==
  /\ pc[t] = "identifier_lock"
  /\ cb.identifier_lock = NoThread
  /\ cb' = [cb EXCEPT !.identifier_lock = t]
  /\ pre' = [pre EXCEPT ![t] =
       [seen |-> \E r \in resolved : r[1] = Identity(t),
        cached |-> \E e \in cb.identifier_cache : e.key = Key(t),
        rows |-> RowsOf(identifier, Identity(t))]]
  /\ Logged(t, "resolve", 0)
  /\ Goto(t, "cache_lookup")
  /\ UNCHANGED <<identifier, data, vl, ds, rates, vl_time, i, status,
                 dataset_id, sel_result, resolved, cleared, writes>>

\* CacheLookup returning the cached id without pthread_mutex_unlock.
CacheLookup_no_unlock(t) ==
  /\ pc[t] = "cache_lookup"
  /\ LET st == wm_identifier_cache_lookup(cb, Key(t)) IN
     IF st >= 0
       THEN /\ dataset_id' = [dataset_id EXCEPT ![t] = st]
            /\ resolved' = resolved \cup {<<Identity(t), st>>}
            /\ Goto(t, "resolved")
       ELSE /\ Goto(t, "sel_bind_param")
            /\ UNCHANGED <<dataset_id, resolved>>
  /\ UNCHANGED <<cb, identifier, data, vl, ds, rates, vl_time, i, status,
                 sel_result, log, pre, cleared, writes>>

\* wm_identifier_cache_lookup and the "likely" branch of wm_identifier_to_id.
CacheLookup(t) ==
  /\ pc[t] = "cache_lookup"
  /\ LET st == wm_identifier_cache_lookup(cb, Key(t)) IN
     IF st >= 0
       THEN /\ cb' = [cb EXCEPT !.identifier_lock = NoThread]
            /\ dataset_id' = [dataset_id EXCEPT ![t] = st]
            /\ resolved' = resolved \cup {<<Identity(t), st>>}
            /\ Goto(t, "resolved")
       ELSE /\ Goto(t, "sel_bind_param")
            /\ UNCHANGED <<cb, dataset_id, resolved>>
  /\ UNCHANGED <<identifier, data, vl, ds, rates, vl_time, i, status,
                 sel_result, log, pre,
                 cleared, writes>>

\* A driver call on the SELECT or INSERT statement that changes nothing but
\* may fail: mysql_stmt_bind_param, mysql_stmt_bind_result, mysql_stmt_reset.
IdentifierCall(t, from, stmt, to) ==
  /\ pc[t] = from
  /\ \E r \in Outcomes(cb[stmt]) :
       CASE r = "ok" -> /\ Goto(t, to)
                        /\ UNCHANGED dataset_id
         [] r = "error" -> LookupFail(t)
         [] r = "crash" -> Crash(t)
  /\ UNCHANGED <<cb, identifier, data, vl, ds, rates, vl_time, i, status,
                 sel_result, log, pre, resolved, cleared,
                 writes>>

\* mysql_stmt_bind_param (cb->identifier_stmt_select, param_bind)
SelBindParam(t) ==
  IdentifierCall(t, "sel_bind_param", "identifier_stmt_select", "sel_bind_result")

\* mysql_stmt_bind_result (cb->identifier_stmt_select, &return_bind)
SelBindResult(t) ==
  IdentifierCall(t, "sel_bind_result", "identifier_stmt_select", "sel_execute")

\* mysql_stmt_execute (cb->identifier_stmt_select)
SelExecute(t) ==
  /\ pc[t] = "sel_execute"
  /\ \E r \in Outcomes(cb.identifier_stmt_select) :
       /\ Logged(t, "select", IF r = "ok" THEN 0 ELSE -1)
       /\ CASE r = "ok" ->
                /\ sel_result' = [sel_result EXCEPT ![t] =
                     SelectIds(identifier, SelectParams(vl[t], ds[t], i[t]))]
                /\ Goto(t, "sel_store_result")
                /\ UNCHANGED dataset_id
           [] r = "error" -> LookupFail(t) /\ UNCHANGED sel_result
           [] r = "crash" -> Crash(t) /\ UNCHANGED sel_result
  /\ UNCHANGED <<cb, identifier, data, vl, ds, rates, vl_time, i, status,
                 pre, resolved, cleared, writes>>

\* SelStoreResult without the branch on mysql_stmt_num_rows: the INSERT
\* follows every SELECT.
SelStoreResult_always_insert(t) ==
  /\ pc[t] = "sel_store_result"
  /\ \E r \in Outcomes(cb.identifier_stmt_select) :
       CASE r = "ok" -> /\ Goto(t, "ins_reset")
                        /\ UNCHANGED dataset_id
         [] r = "error" -> LookupFail(t)
         [] r = "crash" -> Crash(t)
  /\ UNCHANGED <<cb, identifier, data, vl, ds, rates, vl_time, i, status,
                 sel_result, log, pre, resolved, cleared,
                 writes>>

\* mysql_stmt_store_result, then the branch on mysql_stmt_num_rows:
\* 0 rows -> wm_identifier_database_insert, more than one -> -1, one -> fetch.
SelStoreResult(t) ==
  /\ pc[t] = "sel_store_result"
  /\ \E r \in Outcomes(cb.identifier_stmt_select) :
       CASE r = "ok" ->
              LET affected_rows == mysql_stmt_num_rows(sel_result[t]) IN
              IF affected_rows = 0
                THEN /\ Goto(t, "ins_reset")
                     /\ UNCHANGED dataset_id
              ELSE IF affected_rows > 1
                THEN /\ dataset_id' = [dataset_id EXCEPT ![t] = -1]
                     /\ Goto(t, "cache_insert")
              ELSE /\ Goto(t, "sel_fetch")
                     /\ UNCHANGED dataset_id
         [] r = "error" -> LookupFail(t)
         [] r = "crash" -> Crash(t)
  /\ UNCHANGED <<cb, identifier, data, vl, ds, rates, vl_time, i, status,
                 sel_result, log, pre, resolved, cleared,
                 writes>>

\* mysql_stmt_fetch copies the single row's id; a NULL id (id_is_null) makes
\* wm_identifier_database_lookup return -1.
SelFetch(t) ==
  /\ pc[t] = "sel_fetch"
  /\ \E r \in Outcomes(cb.identifier_stmt_select) :
       CASE r = "ok" ->
              /\ dataset_id' = [dataset_id EXCEPT ![t] =
                   LET id == CHOOSE n \in sel_result[t] : TRUE
                   IN  IF id = NullId THEN -1 ELSE id]
              /\ Goto(t, "cache_insert")
         [] r = "error" -> LookupFail(t)
         [] r = "crash" -> Crash(t)
  /\ UNCHANGED <<cb, identifier, data, vl, ds, rates, vl_time, i, status,
                 sel_result, log, pre, resolved, cleared,
                 writes>>

\* mysql_stmt_reset (cb->identifier_stmt_insert)
InsReset(t) ==
  IdentifierCall(t, "ins_reset", "identifier_stmt_insert", "ins_bind_param")

\* mysql_stmt_bind_param (cb->identifier_stmt_insert, binding)
InsBindParam(t) ==
  IdentifierCall(t, "ins_bind_param", "identifier_stmt_insert", "ins_execute")

\* mysql_stmt_execute (cb->identifier_stmt_insert), mysql_stmt_affected_rows
\* and mysql_stmt_insert_id.  "no_row": the statement ran but reports an
\* affected-row count other than 1; nothing was stored.
InsExecute(t) ==
  /\ pc[t] = "ins_execute"
  /\ \E r \in Outcomes(cb.identifier_stmt_insert) \cup
              (IF cb.identifier_stmt_insert = "prepared" THEN {"no_row"} ELSE {}) :
       /\ Logged(t, "insert", IF r = "ok" THEN 0 ELSE IF r = "no_row" THEN -2 ELSE -1)
       /\ CASE r = "ok" ->
                /\ identifier' = InsertRow(identifier, InsertParams(vl[t], ds[t], i[t]))
                /\ dataset_id' = [dataset_id EXCEPT ![t] = Len(identifier) + 1]
                /\ Goto(t, "cache_insert")
           [] r \in {"error", "no_row"} -> LookupFail(t) /\ UNCHANGED identifier
           [] r = "crash" -> Crash(t) /\ UNCHANGED identifier
  /\ UNCHANGED <<cb, data, vl, ds, rates, vl_time, i, status, sel_result,
                 pre, resolved, cleared, writes>>

\* CacheInsert without the "if (status >= 0)": the status of the lookup is
\* cached whatever it is.
CacheInsert_unconditional(t) ==
  /\ pc[t] = "cache_insert"
  /\ \E stored \in BOOLEAN :
       /\ cb' = [(IF stored
                    THEN wm_identifier_cache_insert(cb, Key(t), dataset_id[t])
                    ELSE cb)
                 EXCEPT !.identifier_lock = NoThread]
       /\ IF dataset_id[t] >= 0
            THEN Logged(t, "cache", IF stored THEN 0 ELSE -1)
            ELSE UNCHANGED log
  /\ resolved' = IF dataset_id[t] >= 0
                   THEN resolved \cup {<<Identity(t), dataset_id[t]>>}
                   ELSE resolved
  /\ Goto(t, "resolved")
  /\ UNCHANGED <<identifier, data, vl, ds, rates, vl_time, i, status,
                 dataset_id, sel_result, pre, cleared, writes>>

\* CacheInsert with a failed wm_identifier_cache_insert turned into a failed
\* resolution ("if (wm_identifier_cache_insert (...) != 0) status = -1").
CacheInsert_fatal(t) ==
  /\ pc[t] = "cache_insert"
  /\ \E stored \in BOOLEAN :
       /\ cb' = [(IF dataset_id[t] >= 0 /\ stored
                    THEN wm_identifier_cache_insert(cb, Key(t), dataset_id[t])
                    ELSE cb)
                 EXCEPT !.identifier_lock = NoThread]
       /\ dataset_id' = [dataset_id EXCEPT ![t] = IF stored THEN @ ELSE -1]
       /\ IF dataset_id[t] >= 0
            THEN Logged(t, "cache", IF stored THEN 0 ELSE -1)
            ELSE UNCHANGED log
       /\ resolved' = IF dataset_id[t] >= 0 /\ stored
                        THEN resolved \cup {<<Identity(t), dataset_id[t]>>}
                        ELSE resolved
  /\ Goto(t, "resolved")
  /\ UNCHANGED <<identifier, data, vl, ds, rates, vl_time, i, status,
                 sel_result, pre, cleared, writes>>

\* The tail of wm_identifier_to_id: cache the id when the lookup gave one
\* (strdup or c_avl_insert may fail: the entry is then not stored), unlock,
\* return status.
CacheInsert(t) ==
  /\ pc[t] = "cache_insert"
  /\ \E stored \in BOOLEAN :
       /\ cb' = [(IF dataset_id[t] >= 0 /\ stored
                    THEN wm_identifier_cache_insert(cb, Key(t), dataset_id[t])
                    ELSE cb)
                 EXCEPT !.identifier_lock = NoThread]
       /\ IF dataset_id[t] >= 0
            THEN Logged(t, "cache", IF stored THEN 0 ELSE -1)
            ELSE UNCHANGED log
  /\ resolved' = IF dataset_id[t] >= 0
                   THEN resolved \cup {<<Identity(t), dataset_id[t]>>}
                   ELSE resolved
  /\ Goto(t, "resolved")
  /\ UNCHANGED <<identifier, data, vl, ds, rates, vl_time, i, status,
                 dataset_id, sel_result, pre, cleared, writes>>

\* ----------------------------------------------- the rest of wm_write_locked
\* Resolved with "return (-1)" in place of "continue".
Resolved_return(t) ==
  /\ pc[t] = "resolved"
  /\ Logged(t, "id", dataset_id[t])
  /\ IF dataset_id[t] < 0
       THEN Return(t, -1)
       ELSE /\ Goto(t, "data_bind_param")
            /\ UNCHANGED status
  /\ UNCHANGED <<cb, identifier, data, vl, ds, rates, vl_time, i,
                 dataset_id, sel_result, pre, resolved, cleared, writes>>

\* dataset_id = wm_identifier_to_id (...); if (dataset_id < 0) continue;
Resolved(t) ==
  /\ pc[t] = "resolved"
  /\ Logged(t, "id", dataset_id[t])
  /\ IF dataset_id[t] < 0
       THEN /\ i' = [i EXCEPT ![t] = @ + 1]
            /\ Goto(t, "loop")
       ELSE /\ Goto(t, "data_bind_param")
            /\ UNCHANGED i
  /\ UNCHANGED <<cb, identifier, data, vl, ds, rates, vl_time, status,
                 dataset_id, sel_result, pre, resolved, cleared, writes>>

\* DataBindParam with "continue" in place of "return (-1)" on failure.
DataBindParam_continue(t) ==
  /\ pc[t] = "data_bind_param"
  /\ \E ok \in BOOLEAN :
       IF ok THEN /\ Logged(t, "bind", 0)
                  /\ Goto(t, "data_execute")
                  /\ UNCHANGED i
             ELSE /\ Logged(t, "bind", -1)
                  /\ i' = [i EXCEPT ![t] = @ + 1]
                  /\ Goto(t, "loop")
  /\ UNCHANGED <<cb, identifier, data, vl, ds, rates, vl_time, status,
                 dataset_id, sel_result, pre, resolved, cleared, writes>>

\* mysql_stmt_bind_param (cb->data_stmt, param_bind)
DataBindParam(t) ==
  /\ pc[t] = "data_bind_param"
  /\ \E r \in Outcomes(cb.data_stmt) :
       CASE r = "ok" -> /\ Logged(t, "bind", 0)
                        /\ Goto(t, "data_execute")
                        /\ UNCHANGED status
         [] r = "error" -> /\ Logged(t, "bind", -1)
                           /\ Return(t, -1)
         [] r = "crash" -> /\ Logged(t, "bind", -1)
                           /\ Goto(t, "aborted")
                           /\ UNCHANGED status
  /\ UNCHANGED <<cb, identifier, data, vl, ds, rates, vl_time, i, dataset_id,
                 sel_result, pre, resolved, cleared,
                 writes>>

\* The row bound with "param_bind[2].buffer = rates": the first rate for
\* every data source.
DataRow_first_rate(t) ==
  [identifier_id |-> dataset_id[t], timestamp |-> vl_time[t],
   value |-> rates[t][0]]

\* The row bound by param_bind[0..2]: dataset_id, vl_time, rates[i].
DataRow(t) ==
  [identifier_id |-> dataset_id[t], timestamp |-> vl_time[t],
   value |-> rates[t][i[t]]]

\* DataExecute with a wm_callback_disconnect (cb) before the "return (-1)".
DataExecute_disconnect(t) ==
  /\ pc[t] = "data_execute"
  /\ \E ok \in BOOLEAN :
       IF ok
         THEN /\ data' = Append(data, DataRow(t))
              /\ Logged(t, "execute", 0)
              /\ i' = [i EXCEPT ![t] = @ + 1]
              /\ Goto(t, "loop")
              /\ UNCHANGED <<cb, status>>
         ELSE /\ Logged(t, "execute", -1)
              /\ cb' = wm_callback_disconnect(cb)
              /\ Return(t, -1)
              /\ UNCHANGED <<data, i>>
  /\ UNCHANGED <<identifier, vl, ds, rates, vl_time, dataset_id,
                 sel_result, pre, resolved, cleared, writes>>

\* DataExecute with "continue" in place of "return (-1)" on failure.
DataExecute_continue(t) ==
  /\ pc[t] = "data_execute"
  /\ \E ok \in BOOLEAN :
       /\ data' = IF ok THEN Append(data, DataRow(t)) ELSE data
       /\ Logged(t, "execute", IF ok THEN 0 ELSE -1)
  /\ i' = [i EXCEPT ![t] = @ + 1]
  /\ Goto(t, "loop")
  /\ UNCHANGED <<cb, identifier, vl, ds, rates, vl_time, status, dataset_id,
                 sel_result, pre, resolved, cleared, writes>>

\* mysql_stmt_execute (cb->data_stmt), and i++ of the for loop.
DataExecute(t) ==
  /\ pc[t] = "data_execute"
  /\ \E r \in Outcomes(cb.data_stmt) :
       CASE r = "ok" -> /\ data' = Append(data, DataRow(t))
                        /\ Logged(t, "execute", 0)
                        /\ i' = [i EXCEPT ![t] = @ + 1]
                        /\ Goto(t, "loop")
                        /\ UNCHANGED status
         [] r = "error" -> /\ Logged(t, "execute", -1)
                           /\ Return(t, -1)
                           /\ UNCHANGED <<data, i>>
         [] r = "crash" -> /\ Logged(t, "execute", -1)
                           /\ Goto(t, "aborted")
                           /\ UNCHANGED <<data, i, status>>
  /\ UNCHANGED <<cb, identifier, vl, ds, rates, vl_time, dataset_id,
                 sel_result, pre, resolved, cleared,
                 writes>>

\* pthread_mutex_unlock (&cb->conn_lock), sfree (rates), return (status).
UnlockConn(t) ==
  /\ pc[t] = "unlock"
  /\ cb' = [cb EXCEPT !.conn_lock = NoThread]
  /\ Goto(t, "idle")
  /\ vl' = [vl EXCEPT ![t] = NoValueList]
  /\ ds' = [ds EXCEPT ![t] = NoDataSet]
  /\ rates' = [rates EXCEPT ![t] = <<>>]
  /\ vl_time' = [vl_time EXCEPT ![t] = NoTime]
  /\ i' = [i EXCEPT ![t] = 0]
  /\ status' = [status EXCEPT ![t] = 0]
  /\ dataset_id' = [dataset_id EXCEPT ![t] = -1]
  /\ sel_result' = [sel_result EXCEPT ![t] = {}]
  /\ log' = [log EXCEPT ![t] = <<>>]
  /\ pre' = [pre EXCEPT ![t] = NoPre]
  /\ UNCHANGED <<identifier, data, resolved,
                 cleared, writes>>

\* -------------------------------------------------------------- other calls
\* wm_callback_free, the free_func of the write callback: it disconnects
\* without taking conn_lock.  The plugin framework calls it when the callback
\* is unregistered, which is modelled as between wm_write calls.
wm_callback_free ==
  /\ \A t \in Threads : pc[t] = "idle"
  /\ cb' = wm_callback_disconnect(cb)
  /\ UNCHANGED <<identifier, data, pc, vl, ds, rates, vl_time, i, status,
                 dataset_id, sel_result, log, pre, resolved, cleared, writes>>

\* The process ends and is started again: wm_config_instance builds a new
\* wm_callback_t with an empty cache; the store keeps its rows.
Restart ==
  /\ \A t \in Threads : pc[t] = "idle"
  /\ cb' = wm_callback_init
  /\ cleared' = (cleared \/ cb.identifier_cache # {})
  /\ UNCHANGED <<identifier, data, pc, vl, ds, rates, vl_time, i, status,
                 dataset_id, sel_result, log, pre, resolved, writes>>

\* --------------------------------------------------------------------- Next
Write(t) ==
  \/ WriteBegin(t) \/ LockConn(t) \/ ConnectBegin(t) \/ RealConnect(t)
  \/ SelectDb(t) \/ StmtInit(t) \/ StmtPrepare(t) \/ ConvertTime(t)
  \/ LoopTest(t) \/ LockIdentifier(t) \/ CacheLookup(t) \/ SelBindParam(t)
  \/ SelBindResult(t) \/ SelExecute(t) \/ SelStoreResult(t) \/ SelFetch(t)
  \/ InsReset(t) \/ InsBindParam(t) \/ InsExecute(t) \/ CacheInsert(t)
  \/ Resolved(t) \/ DataBindParam(t) \/ DataExecute(t) \/ UnlockConn(t)

Next == (\E t \in Threads : Write(t)) \/ wm_callback_free

Spec == Init /\ [][Next]_vars

\* The same with the scheduler letting every thread that is inside wm_write
\* take its next step (each driver call returns); new calls are not forced.
Progress(t) == pc[t] # "idle" /\ Write(t)

SpecLive == Spec /\ \A t \in Threads : WF_vars(Progress(t))

\* A table identifier that breaks the schema the plugin expects: another
\* writer of the database adds, to a table without the UNIQUE key or the NOT
\* NULL id, a second row for an identity that has one, or a row with a NULL
\* id for an identity that has none.  It does so once, between batches, for
\* the identity of the cpu batch.
ForeignInsert ==
  /\ \A t \in Threads : pc[t] = "idle"
  /\ \A a, b \in 1..Len(identifier) :
       /\ RowKey(identifier[a]) = RowKey(identifier[b]) => a = b
       /\ identifier[a].id # NullId
  /\ \E b \in {x \in Batches : x.ds = DataSetCpu} :
       LET p   == InsertParams(b.vl, b.ds, 0)
           row == InsertRow(identifier, p)[Len(identifier) + 1]
       IN  identifier' =
             IF RowsOf(identifier, RowKey(p)) = 0
               THEN Append(identifier, [row EXCEPT !.id = NullId])
               ELSE Append(identifier, row)
  /\ UNCHANGED <<cb, data, pc, vl, ds, rates, vl_time, i, status, dataset_id,
                 sel_result, log, pre, resolved, cleared, writes>>

NextForeign == Next \/ ForeignInsert

SpecForeign == Init /\ [][NextForeign]_vars

\* The same with process restarts.
NextRestart == Next \/ Restart

SpecRestart == Init /\ [][NextRestart]_vars


\* ------------------------------------------------------- the key function
\* wm_identifier_to_id as a function of its arguments: value lists and data
\* sets whose names need not follow the naming schema (a plugin name with a
\* hyphen), and two definitions of one data source that differ in type only.
DataSetValueCounter ==
  [ds_num |-> 1,
   ds |-> [k \in 0..0 |-> [name |-> "value", type |-> DS_TYPE_COUNTER]]]
KeyInputs ==
  { [vl |-> [host |-> "h", plugin |-> p, plugin_instance |-> pi,
             type |-> "t", type_instance |-> ""],
     ds |-> d] :
      p \in {"a", "a-b"}, pi \in {"", "b"},
      d \in {DataSetCpu, DataSetValueCounter, DataSetIfOctets} }

\* wm_identifier_to_id with every call succeeding, taken as one step: cache
\* lookup, else SELECT, else INSERT, then the cache insert.
KeyResolve ==
  \E b \in KeyInputs : \E index \in 0..(b.ds.ds_num - 1) :
    LET key   == IdentifierKey(b.vl, b.ds, index)
        st    == wm_identifier_cache_lookup(cb, key)
        found == SelectIds(identifier, SelectParams(b.vl, b.ds, index))
        id    == IF st >= 0 THEN st
                 ELSE IF found = {} THEN Len(identifier) + 1
                 ELSE CHOOSE n \in found : TRUE
    IN  /\ Cardinality(resolved) < MaxKeys
        /\ identifier' = IF st < 0 /\ found = {}
                           THEN InsertRow(identifier, InsertParams(b.vl, b.ds, index))
                           ELSE identifier
        /\ cb' = IF st < 0 THEN wm_identifier_cache_insert(cb, key, id) ELSE cb
        /\ resolved' = resolved \cup {<<InsertParams(b.vl, b.ds, index), id>>}
        /\ UNCHANGED <<data, pc, vl, ds, rates, vl_time, i, status,
                       dataset_id, sel_result, log, pre, cleared, writes>>

SpecKey == Init /\ [][KeyResolve]_vars

\* ------------------------------------------------------------------ claims
\* Reading a thread's log.
HasEvent(t, kind, index) ==
  \E k \in 1..Len(log[t]) : log[t][k][1] = kind /\ log[t][k][2] = index
HasEventVal(t, kind, index, val) ==
  \E k \in 1..Len(log[t]) :
    log[t][k][1] = kind /\ log[t][k][2] = index /\ log[t][k][3] = val

\* The ids wm_identifier_to_id has returned for identity x, and the ids of
\* the rows of table identifier with x as their key.
ReturnedIds(x) == {r[2] : r \in {q \in resolved : q[1] = x}}
RowIds(x) == SelectIds(identifier, x)

\* C1: in every reachable state the identifier table holds at most one row
\* per (host, plugin, plugin_instance, type, type_instance,
\* data_source_name).
C1_UniqueIdentifierRows ==
  \A a, b \in 1..Len(identifier) :
    RowKey(identifier[a]) = RowKey(identifier[b]) => a = b

\* C1 witness: a thread missed the cache for an identity whose row exists
\* and has the one-row result of its SELECT in hand.
C1_Witness ==
  \E t \in Threads :
    /\ pc[t] = "sel_store_result"
    /\ pre[t].rows = 1
    /\ Cardinality(sel_result[t]) = 1

\* C2: every identity that has been resolved by any thread has exactly one
\* identifier row (one INSERT took effect for it), and every resolution of
\* it returned that row's id.
C2_OneRowOneId ==
  \A x \in Identities :
    ReturnedIds(x) # {} =>
      /\ RowsOf(identifier, x) = 1
      /\ ReturnedIds(x) = RowIds(x)

\* C2 witness: two calls only; the second was made while the first thread
\* was inside wm_write_locked, and it has now resolved, without an INSERT,
\* the identity whose only row the first call created.
C2_Witness ==
  \E u \in Threads :
    /\ writes = 2
    /\ pc[u] = "resolved"
    /\ dataset_id[u] >= 0
    /\ HasEventVal(u, "call", -1, 1)
    /\ ~HasEvent(u, "insert", i[u])
    /\ RowsOf(identifier, Identity(u)) = 1


\* C3: a resolution that starts with a cold cache for an identity resolved
\* before executes no identifier INSERT and leaves exactly one row for the
\* identity; when it returns an id, it has executed the SELECT and the id is
\* that row's id, the same id every earlier resolution returned.
C3_ColdCacheNoSecondRow ==
  \A t \in Threads :
    (pc[t] = "resolved" /\ pre[t].seen /\ ~pre[t].cached) =>
      /\ ~HasEvent(t, "insert", i[t])
      /\ RowsOf(identifier, Identity(t)) = 1
      /\ dataset_id[t] >= 0 =>
           /\ HasEvent(t, "select", i[t])
           /\ RowIds(Identity(t)) = {dataset_id[t]}
           /\ ReturnedIds(Identity(t)) = {dataset_id[t]}

\* C3 witness: after a restart that dropped the cache entry of the only
\* identity in the store, a thread has resolved that identity again.
C3_Witness ==
  \E t \in Threads :
    /\ cleared
    /\ Len(identifier) = 1
    /\ cb.identifier_cache = {}
    /\ pc[t] = "resolved"
    /\ pre[t].seen
    /\ dataset_id[t] >= 0

\* C4 as claimed: a resolution of an identity that has been resolved before
\* executes neither the identifier SELECT nor the identifier INSERT and
\* returns the id returned before.
C4_ResolvedShortCircuit ==
  \A t \in Threads :
    (pc[t] = "resolved" /\ pre[t].seen) =>
      /\ ~HasEvent(t, "select", i[t])
      /\ ~HasEvent(t, "insert", i[t])
      /\ ReturnedIds(Identity(t)) = {dataset_id[t]}

\* C4 amended: a resolution of an identity that has been resolved before and
\* whose key is in the cache executes neither the identifier SELECT nor the
\* identifier INSERT and returns the id returned before.
C4_CachedShortCircuit ==
  \A t \in Threads :
    (pc[t] = "resolved" /\ pre[t].seen /\ pre[t].cached) =>
      /\ ~HasEvent(t, "select", i[t])
      /\ ~HasEvent(t, "insert", i[t])
      /\ ReturnedIds(Identity(t)) = {dataset_id[t]}

\* C4 witness: a thread has resolved, from the cache, the second data source
\* of a batch whose identities were resolved by an earlier batch.
C4_Witness ==
  \E t \in Threads :
    /\ pc[t] = "resolved"
    /\ i[t] = 1
    /\ pre[t].seen
    /\ pre[t].cached
    /\ dataset_id[t] >= 1

\* The positions inside wm_callback_connect, and the positions at which a
\* thread is about to call the driver on each prepared statement.
ConnectPcs ==
  {"real_connect", "select_db",
   "data_stmt_init", "data_stmt_prepare",
   "identifier_stmt_select_init", "identifier_stmt_select_prepare",
   "identifier_stmt_insert_init", "identifier_stmt_insert_prepare"}
SelectPcs ==
  {"sel_bind_param", "sel_bind_result", "sel_execute", "sel_store_result",
   "sel_fetch"}
InsertPcs == {"ins_reset", "ins_bind_param", "ins_execute"}
DataPcs == {"data_bind_param", "data_execute"}
StatementHandles == {cb.data_stmt, cb.identifier_stmt_select, cb.identifier_stmt_insert}
Connected == cb.conn = "connected" /\ StatementHandles = {"prepared"}
Disconnected == cb.conn = NULL /\ StatementHandles = {NULL}

\* C5: while no thread is inside wm_callback_connect the target is either
\* connected with all three statements prepared or has neither connection
\* nor statements; after a failed connect it is the latter, after a
\* successful one the former, and the assertion of wm_callback_connect holds.
C5_AllOrNothing ==
  /\ (\A t \in Threads : pc[t] \notin ConnectPcs) => (Connected \/ Disconnected)
  /\ \A t \in Threads :
       /\ pc[t] # "aborted"
       /\ (pc[t] = "connect" /\ cb.conn = NULL) => cb.data_stmt = NULL
       /\ (\E k \in 1..Len(log[t]) : log[t][k][1] = "connect" /\ log[t][k][3] < 0) =>
            (pc[t] = "unlock" /\ status[t] = -1 /\ Disconnected)
       /\ (HasEventVal(t, "connect", -1, 0) \/ HasEventVal(t, "connect", -1, 1)) =>
            Connected

\* C5 witness: the last mysql_stmt_prepare of a connect attempt failed, and
\* the thread is back in wm_write with the target disconnected.
C5_Witness ==
  \E t \in Threads :
    /\ pc[t] = "unlock"
    /\ HasEventVal(t, "connect", -1, -9)
    /\ Disconnected

\* C6: a thread about to bind or execute a statement finds the connection
\* up and that statement prepared, wm_callback_connect having returned
\* success earlier in the same batch; no thread dies in a driver call.
C6_PreparedBeforeUse ==
  \A t \in Threads :
    /\ pc[t] # "aborted"
    /\ pc[t] \in SelectPcs => cb.identifier_stmt_select = "prepared"
    /\ pc[t] \in InsertPcs => cb.identifier_stmt_insert = "prepared"
    /\ pc[t] \in DataPcs => cb.data_stmt = "prepared"
    /\ pc[t] \in SelectPcs \cup InsertPcs \cup DataPcs =>
         /\ cb.conn = "connected"
         /\ HasEventVal(t, "connect", -1, 0) \/ HasEventVal(t, "connect", -1, 1)

\* C6 witness: data rows exist, so the target was connected before; the
\* current batch had to connect anew and is about to execute the data
\* INSERT.
C6_Witness ==
  \E t \in Threads :
    /\ data # <<>>
    /\ HasEventVal(t, "connect", -1, 1)
    /\ pc[t] = "data_execute"


\* The data rows of the batch thread t is writing: their values are the
\* rates of this batch.
BatchRows(t) ==
  {k \in 1..Len(data) :
     \E j \in 0..(ds[t].ds_num - 1) : data[k].value = rates[t][j]}
\* The row wm_write_locked binds for data source j with identifier id.
RowFor(t, j, id) ==
  [identifier_id |-> id, timestamp |-> vl_time[t], value |-> rates[t][j]]
\* The id wm_identifier_to_id returned for data source j of the batch.
IdOf(t, j) ==
  (CHOOSE e \in {log[t][k] : k \in 1..Len(log[t])} : e[1] = "id" /\ e[2] = j)[3]

\* C7: when the timestamp conversion fails, wm_write_locked returns -1 with
\* nothing after the conversion attempted: no resolution, no SELECT, no
\* INSERT, no bind, no execute, and no data row of the batch in the store.
C7_TimeFailureWritesNothing ==
  \A t \in Threads :
    HasEventVal(t, "time", -1, -1) =>
      /\ pc[t] = "unlock"
      /\ status[t] = -1
      /\ \A k \in 1..Len(log[t]) : log[t][k][1] \in {"call", "connect", "time"}
      /\ BatchRows(t) = {}

\* C7 witness: the conversion failed for a batch of two data sources while
\* the store already holds data rows of an earlier batch.
C7_Witness ==
  \E t \in Threads :
    /\ HasEventVal(t, "time", -1, -1)
    /\ ds[t].ds_num = 2
    /\ data # <<>>

\* C8: when wm_write_locked returns after a successful conversion and no
\* failed bind or execute of the data INSERT, it returns 0, every data
\* source was resolved, each source that got an id has its row in the store,
\* and each source that got none was neither bound nor executed and has no
\* row.
C8_PartialSuccess ==
  \A t \in Threads :
    ( /\ pc[t] = "unlock"
      /\ HasEventVal(t, "time", -1, 0)
      /\ \A j \in 0..(ds[t].ds_num - 1) :
           ~HasEventVal(t, "bind", j, -1) /\ ~HasEventVal(t, "execute", j, -1) )
    =>
      /\ status[t] = 0
      /\ \A j \in 0..(ds[t].ds_num - 1) :
           /\ HasEvent(t, "id", j)
           /\ IdOf(t, j) >= 0 =>
                /\ HasEventVal(t, "execute", j, 0)
                /\ \E k \in 1..Len(data) : data[k] = RowFor(t, j, IdOf(t, j))
           /\ IdOf(t, j) < 0 =>
                /\ ~HasEvent(t, "bind", j)
                /\ ~HasEvent(t, "execute", j)
                /\ \A k \in 1..Len(data) : data[k].value # rates[t][j]

\* C8 witness: a batch of two sources returned 0 with the first source
\* unresolved and the second one written, its row being the batch's only one.
C8_Witness ==
  \E t \in Threads :
    /\ pc[t] = "unlock"
    /\ status[t] = 0
    /\ ds[t].ds_num = 2
    /\ HasEventVal(t, "id", 0, -1)
    /\ HasEventVal(t, "execute", 1, 0)
    /\ Cardinality(BatchRows(t)) = 1

\* C9: a failed execute of the data INSERT is the last thing its batch
\* does: wm_write_locked returns -1, no later source is resolved, bound or
\* executed, and the rows of the sources executed before it are in the store.
C9_ExecuteFailureTerminal ==
  \A t \in Threads :
    \A k \in 1..Len(log[t]) :
      (log[t][k][1] = "execute" /\ log[t][k][3] = -1) =>
        /\ k = Len(log[t])
        /\ pc[t] = "unlock"
        /\ status[t] = -1
        /\ \A m \in 1..Len(log[t]) : log[t][m][2] <= log[t][k][2]
        /\ \A j \in 0..(log[t][k][2] - 1) :
             HasEventVal(t, "execute", j, 0) =>
               \E r \in 1..Len(data) : data[r] = RowFor(t, j, IdOf(t, j))
        /\ \A r \in 1..Len(data) : data[r].value # rates[t][log[t][k][2]]

\* C9 witness: the execute for the second source of a batch failed after
\* the row of the first source was written.
C9_Witness ==
  \E t \in Threads :
    /\ HasEventVal(t, "execute", 0, 0)
    /\ HasEventVal(t, "execute", 1, -1)
    /\ Cardinality(BatchRows(t)) = 1

\* C10 as claimed: the connection and statement handles change only while
\* conn_lock is held, a thread inside wm_write_locked is the holder of
\* conn_lock, and the cache changes only while identifier_lock is held.
InsideLocked(t) == pc[t] \notin {"idle", "lock", "aborted"}
C10_LockDiscipline ==
  /\ [](\A t \in Threads : InsideLocked(t) => cb.conn_lock = t)
  /\ [][ /\ (<<cb.conn, cb.data_stmt, cb.identifier_stmt_select,
               cb.identifier_stmt_insert>>' #
             <<cb.conn, cb.data_stmt, cb.identifier_stmt_select,
               cb.identifier_stmt_insert>>) => cb.conn_lock # NoThread
         /\ (cb.identifier_cache' # cb.identifier_cache) =>
              cb.identifier_lock # NoThread ]_vars


\* C11: a failed wm_identifier_cache_insert is not fatal.  The source whose
\* id could not be cached still gets that id, the id of the identity's row;
\* unless its bind or execute fails its data row is written; and a later
\* resolution of an identity that was resolved but is not in the cache
\* misses the cache, runs the SELECT again unless a call before it fails,
\* executes no INSERT and leaves the identity with one row.
C11_CacheInsertFailureNonFatal ==
  \A t \in Threads :
    /\ \A j \in 0..(ds[t].ds_num - 1) :
         HasEventVal(t, "cache", j, -1) =>
           /\ cb.identifier_lock # t \/ i[t] # j
           /\ HasEvent(t, "id", j) =>
                /\ IdOf(t, j) >= 0
                /\ RowIds(IdentityOf(vl[t], ds[t], j)) = {IdOf(t, j)}
           /\ ( /\ pc[t] = "unlock"
                /\ ~HasEventVal(t, "bind", j, -1)
                /\ ~HasEventVal(t, "execute", j, -1) ) =>
                \E k \in 1..Len(data) : data[k] = RowFor(t, j, IdOf(t, j))
    /\ (pc[t] = "resolved" /\ pre[t].seen /\ ~pre[t].cached) =>
         /\ HasEvent(t, "select", i[t]) \/ dataset_id[t] < 0
         /\ ~HasEvent(t, "insert", i[t])
         /\ RowsOf(identifier, Identity(t)) = 1
         /\ dataset_id[t] >= 0 => RowIds(Identity(t)) = {dataset_id[t]}

\* C11 witness: an earlier batch wrote a data row for an identity whose id
\* could not be cached; this batch missed the cache for it, found the row
\* with the SELECT, and failed to cache the id again.
C11_Witness ==
  \E t \in Threads :
    /\ pc[t] = "resolved"
    /\ pre[t].seen
    /\ ~pre[t].cached
    /\ pre[t].rows = 1
    /\ HasEvent(t, "select", i[t])
    /\ HasEventVal(t, "cache", i[t], -1)
    /\ dataset_id[t] >= 1
    /\ \E k \in 1..Len(data) : data[k].identifier_id = dataset_id[t]


\* The key of an identity x of seven fields.
KeyOfIdentity(x) ==
  IdentifierKey(x, [ds_num |-> 1,
                    ds |-> [k \in 0..0 |-> [name |-> x.data_source_name]]], 0)

ConnectFailed(t) ==
  \E k \in 1..Len(log[t]) : log[t][k][1] = "connect" /\ log[t][k][3] < 0

\* C13: a write whose connect fails has made one connect attempt and nothing
\* else (no SELECT, no INSERT, no bind, no execute), has written no row,
\* returns -1 and leaves the target disconnected; the connection comes up
\* only in a step of a thread that is in wm_callback_connect under
\* conn_lock; and a write that finds the target disconnected makes a connect
\* attempt before anything else.
C13_ConnectFailure ==
  /\ [](\A t \in Threads :
          ConnectFailed(t) =>
            /\ pc[t] = "unlock"
            /\ status[t] = -1
            /\ Disconnected
            /\ Len(log[t]) = 2
            /\ log[t][1][1] = "call"
            /\ BatchRows(t) = {})
  /\ [][ /\ (cb.conn = NULL /\ cb.conn' # NULL) =>
              \E t \in Threads : pc[t] = "connect" /\ cb.conn_lock = t
         /\ \A t \in Threads :
              (pc[t] = "connect" /\ cb.conn = NULL /\ pc'[t] # "connect") =>
                \/ pc'[t] = "real_connect" /\ cb.conn' = "init"
                \/ ConnectFailed(t)' ]_vars

\* C13 witness: the second batch found the target torn down after the
\* first batch had written a row, and its mysql_real_connect failed.
C13_Witness ==
  \E t \in Threads :
    /\ HasEventVal(t, "connect", -1, -2)
    /\ pc[t] = "unlock"
    /\ writes = 2
    /\ data # <<>>
    /\ Disconnected


\* The position in log[t] of the event of that kind for data source index
\* (0 when there is none).
EventAt(t, kind, index) ==
  IF HasEvent(t, kind, index)
    THEN CHOOSE k \in 1..Len(log[t]) : log[t][k][1] = kind /\ log[t][k][2] = index
    ELSE 0

\* C14: a thread on the INSERT path of an identity holds both locks, has
\* executed the SELECT for that identity earlier in the same resolution with
\* an empty result, and the identity still has no row; no other thread is at
\* the SELECT or the INSERT meanwhile; and table identifier changes only in
\* the mysql_stmt_execute step of such a thread.
C14_SelectBeforeInsert ==
  /\ [](\A t \in Threads :
          /\ pc[t] \in InsertPcs =>
               /\ cb.conn_lock = t
               /\ cb.identifier_lock = t
               /\ HasEvent(t, "select", i[t])
               /\ EventAt(t, "resolve", i[t]) < EventAt(t, "select", i[t])
               /\ sel_result[t] = {}
               /\ RowsOf(identifier, Identity(t)) = 0
               /\ \A u \in Threads \ {t} : pc[u] \notin SelectPcs \cup InsertPcs
          /\ \A j \in 0..(ds[t].ds_num - 1) :
               HasEvent(t, "insert", j) =>
                 /\ HasEvent(t, "select", j)
                 /\ EventAt(t, "select", j) < EventAt(t, "insert", j))
  /\ [][ identifier' # identifier =>
           \E t \in Threads :
             /\ pc[t] = "ins_execute"
             /\ cb.identifier_lock = t
             /\ sel_result[t] = {}
             /\ RowsOf(identifier, Identity(t)) = 0
             /\ identifier' = InsertRow(identifier, InsertParams(vl[t], ds[t], i[t])) ]_vars

\* C14 witness: a thread has inserted the row of an unseen identity while
\* another thread, in wm_write with a batch of the same value list, waits
\* for conn_lock.
C14_Witness ==
  \E t, u \in Threads :
    /\ t # u
    /\ pc[t] = "cache_insert"
    /\ HasEvent(t, "insert", i[t])
    /\ dataset_id[t] >= 1
    /\ pc[u] = "lock"
    /\ vl[u].plugin = vl[t].plugin
    /\ vl[u].type = vl[t].type


\* C15: a resolution fails, without executing the INSERT, when its SELECT
\* returned more than one row or a row with a NULL id; it fails when the
\* INSERT reports an affected-row count other than 1; a resolution that
\* fails for whatever reason has released identifier_lock and added no cache
\* entry for its key; and a resolution that starts without a cache entry
\* goes to the store (reaches the SELECT unless a bind before it fails).
C15_HardErrorsNotCached ==
  \A t \in Threads :
    pc[t] = "resolved" =>
      /\ (HasEventVal(t, "select", i[t], 0) /\ Cardinality(sel_result[t]) > 1) =>
           dataset_id[t] < 0 /\ ~HasEvent(t, "insert", i[t])
      /\ (HasEventVal(t, "select", i[t], 0) /\ sel_result[t] = {NullId}) =>
           dataset_id[t] < 0 /\ ~HasEvent(t, "insert", i[t])
      /\ HasEventVal(t, "insert", i[t], -2) => dataset_id[t] < 0
      /\ dataset_id[t] < 0 =>
           /\ cb.identifier_lock = NoThread
           /\ ~HasEvent(t, "cache", i[t])
           /\ ~pre[t].cached
           /\ wm_identifier_cache_lookup(cb, Key(t)) < 0
           /\ \A e \in cb.identifier_cache : e.key # Key(t) /\ e.id > 0
      /\ ~pre[t].cached =>
           HasEvent(t, "select", i[t]) \/ dataset_id[t] < 0

\* C15 witness: the SELECT of a resolution returned two rows for one
\* identity; the resolution failed and its key is not in the cache.
C15_Witness ==
  \E t \in Threads :
    /\ pc[t] = "resolved"
    /\ HasEventVal(t, "select", i[t], 0)
    /\ Cardinality(sel_result[t]) = 2
    /\ pre[t].rows = 2
    /\ dataset_id[t] < 0


\* C16: the cache holds at most one entry per key, and no step (a write, a
\* connect, a disconnect of a failed connect or of wm_callback_free, a
\* failure) removes an entry or changes its id.
C16_CacheOnlyGrows ==
  /\ [](\A e, f \in cb.identifier_cache : e.key = f.key => e = f)
  /\ [][cb.identifier_cache \subseteq cb.identifier_cache']_vars

\* C16 witness: after a teardown a batch connected anew and resolved its
\* identity from the entry cached before the teardown.
C16_Witness ==
  \E t \in Threads :
    /\ pc[t] = "resolved"
    /\ HasEventVal(t, "connect", -1, 1)
    /\ pre[t].cached
    /\ dataset_id[t] >= 1
    /\ ~HasEvent(t, "select", i[t])


\* The data sources of the batch of thread t whose data INSERT has executed.
Executed(t) == {j \in 0..(ds[t].ds_num - 1) : HasEventVal(t, "execute", j, 0)}

\* C17: while a batch whose connect and timestamp conversion succeeded is
\* in wm_write_locked, the rows it has appended are the last rows of table
\* data: one row (id returned for source j, the converted timestamp of the
\* batch, rates[j]) for every source j whose execute succeeded, in increasing
\* order of j, and no other row carries a rate of the batch; and every step
\* leaves table data as it is or appends one row to it.
C17_BatchRows ==
  /\ [](\A t \in Threads :
          HasEventVal(t, "time", -1, 0) =>
            LET n == Cardinality(Executed(t)) IN
            /\ vl_time[t] = wm_cdtime_t_to_mysql_time(vl[t].time)
            /\ n <= Len(data)
            /\ \A j \in Executed(t) :
                 data[Len(data) - n + Cardinality({m \in Executed(t) : m <= j})]
                   = RowFor(t, j, IdOf(t, j))
            /\ BatchRows(t) = (Len(data) - n + 1)..Len(data)
            /\ \A k \in BatchRows(t) : data[k].timestamp = vl_time[t])
  /\ [][ \/ data' = data
         \/ /\ Len(data') = Len(data) + 1
            /\ SubSeq(data', 1, Len(data)) = data ]_vars

\* C17 witness: a batch of two data sources has appended its two rows, in
\* source order, after the rows of an earlier batch.
C17_Witness ==
  \E t \in Threads :
    /\ pc[t] = "unlock"
    /\ Executed(t) = {0, 1}
    /\ Len(data) >= 3
    /\ data[Len(data) - 1].value = rates[t][0]
    /\ data[Len(data)].value = rates[t][1]


StatementFailed(t) ==
  \E k \in 1..Len(log[t]) :
    log[t][k][1] \in {"id", "bind", "execute"} /\ log[t][k][3] < 0

\* C19: a batch in which a statement call has failed still has the
\* connection and the three prepared statements; the connection handle goes
\* back to NULL only in a failing step of wm_callback_connect or in
\* wm_callback_free between writes; and a write that finds the connection
\* present passes wm_callback_connect without touching the target.
C19_FailureKeepsConnection ==
  /\ [](\A t \in Threads : StatementFailed(t) => Connected)
  /\ [][ /\ (cb.conn # NULL /\ cb.conn' = NULL) =>
              \/ \E t \in Threads :
                   (pc[t] \in ConnectPcs /\ cb.conn_lock = t /\ ConnectFailed(t)')
              \/ \A t \in Threads : pc[t] = "idle" /\ pc'[t] = "idle"
         /\ \A t \in Threads :
              (pc[t] = "connect" /\ cb.conn # NULL /\ pc'[t] # "connect") =>
                (pc'[t] = "time" /\ cb' = cb) ]_vars

\* C19 witness: an earlier batch cached the id of this identity and wrote
\* no row, so its bind or execute failed; this batch found the connection
\* present (connect was a no-op), its execute failed too, and the target is
\* still connected.
C19_Witness ==
  \E t \in Threads :
    /\ pc[t] = "unlock"
    /\ ds[t].ds_num = 1
    /\ HasEventVal(t, "connect", -1, 0)
    /\ pre[t].cached
    /\ data = <<>>
    /\ HasEventVal(t, "execute", 0, -1)
    /\ Connected


\* The positions between the lock and the unlock of identifier_lock.
ResolvePcs == {"cache_lookup", "cache_insert"} \cup SelectPcs \cup InsertPcs

\* C20: a thread holds conn_lock exactly while it is between the lock and
\* the unlock of wm_write, and identifier_lock exactly while it is inside
\* the locked part of wm_identifier_to_id, which lies inside the former; a
\* thread inside wm_write can take a step, or waits for conn_lock whose
\* holder can take one; and every thread inside wm_write gets back out
\* (it is outside wm_write again and again, which says the same).
C20_LocksReleased ==
  /\ [](\A t \in Threads :
          /\ cb.conn_lock = t <=> InsideLocked(t)
          /\ cb.identifier_lock = t <=> pc[t] \in ResolvePcs
          /\ cb.identifier_lock = t => cb.conn_lock = t
          /\ pc[t] # "idle" =>
               \/ ENABLED Write(t)
               \/ /\ pc[t] = "lock"
                  /\ cb.conn_lock \in Threads \ {t}
                  /\ ENABLED Write(cb.conn_lock))
  /\ \A t \in Threads : []<>(pc[t] = "idle")

\* C20 witness: a thread waits for conn_lock while the holder is on an
\* error return of a resolution, identifier_lock still held.
C20_Witness ==
  \E t, u \in Threads :
    /\ pc[t] = "cache_insert"
    /\ dataset_id[t] < 0
    /\ cb.identifier_lock = t
    /\ pc[u] = "lock"


\* A bind or an execute of the data INSERT failed in the batch of thread t.
DataInsertFailed(t) ==
  \E k \in 1..Len(log[t]) :
    log[t][k][1] \in {"bind", "execute"} /\ log[t][k][3] < 0

\* C21: when wm_write_locked has returned, its result is 0 or -1, and it is
\* 0 exactly when the connect and the timestamp conversion succeeded and no
\* bind or execute of the data INSERT failed, whatever the resolutions
\* returned; a batch whose every data source got no id has written no data
\* row and returned 0.
C21_BatchResult ==
  \A t \in Threads :
    pc[t] = "unlock" =>
      /\ status[t] \in {0, -1}
      /\ status[t] = 0 <=>
           /\ ~ConnectFailed(t)
           /\ HasEventVal(t, "time", -1, 0)
           /\ ~DataInsertFailed(t)
      /\ (\A j \in 0..(ds[t].ds_num - 1) :
            HasEvent(t, "id", j) /\ IdOf(t, j) < 0) =>
           /\ status[t] = 0
           /\ BatchRows(t) = {}

\* C21 witness: a batch of two data sources, neither of which got an id,
\* returned 0 while the store holds the data rows of an earlier batch only.
C21_Witness ==
  \E t \in Threads :
    /\ pc[t] = "unlock"
    /\ status[t] = 0
    /\ ds[t].ds_num = 2
    /\ HasEventVal(t, "id", 0, -1)
    /\ HasEventVal(t, "id", 1, -1)
    /\ data # <<>>
    /\ BatchRows(t) = {}

====
